---- MODULE Spec2Model ----
(***************************************************************************)
(* A model of src/ui.py, the presentation layer of the report dashboard:   *)
(* the three selectors, the header renderer, the page chrome and           *)
(* display_report, the memoized report renderer, over a filesystem of      *)
(* pre-rendered reports that external collaborators may change between     *)
(* two calls.                                                              *)
(*                                                                         *)
(* Every call is one atomic step (the page is rendered by one thread, top  *)
(* to bottom).  The variables call, result, page and reads describe the    *)
(* last step: what was called, how it ended, the elements it put on the    *)
(* page and how many times it touched the filesystem.                      *)
(***************************************************************************)
EXTENDS Naturals, Sequences, FiniteSets, TLC

VARIABLES
    fs,        \* the filesystem: what is found at each report path
    cache,     \* the store of @st.cache_data on display_report
    call,      \* the last step: the function called and its arguments (and,
               \* for display_report, whether it was invoked with the path before)
    result,    \* how the last call ended: a returned value or a raised error
    page,      \* the elements the last call put on the page, in order
    reads,     \* the filesystem accesses of the last call
    firstRun,  \* history: per path, the filesystem entry and the value of
               \* the first invocation of display_report that returned
    invoked    \* history: the paths display_report has been invoked with

vars == <<fs, cache, call, result, page, reads, firstRun, invoked>>

(***************************************************************************)
(* The inputs.                                                             *)
(***************************************************************************)
\* The report paths handed to display_report.
Paths == {"p", "q"}
\* The HTML texts a report file may hold.
Contents == {"<h1>", "<h2>"}
\* The names of the files of a report directory, as character codes: the
\* files "2" and "12".  As strings "12" < "2"; as numbers, or by length, not.
Names == {<<50>>, <<49, 50>>}
\* The option texts of the selectors, as sequences of characters: "a" and
\* "a/", two texts that name one path.
OptionTexts == {<<"a">>, <<"a", "/">>}
\* The longest option list handed to a selector.
MaxOptions == 2

OptionLists == UNION {[1..n -> OptionTexts] : n \in 0..MaxOptions}

(***************************************************************************)
(* The filesystem.  A path holds nothing, a text file, or a directory of   *)
(* text files (spec section 3: a report is a file or a directory of files).*)
(***************************************************************************)
Absent == [kind |-> "absent"]
FileEntry(c) == [kind |-> "file", text |-> c]
DirEntry(f) == [kind |-> "dir", files |-> f]

Entries ==
    {Absent} \cup {FileEntry(c) : c \in Contents}
    \cup {DirEntry(f) : f \in UNION {[S -> Contents] : S \in SUBSET Names}}

is_file(e) == e.kind = "file"
is_dir(e) == e.kind = "dir"

\* os.listdir: the names of the children, in an order the filesystem chooses.
listdir(e) ==
    {o \in [1..Cardinality(DOMAIN e.files) -> DOMAIN e.files] :
        \A i, j \in DOMAIN o : i # j => o[i] # o[j]}

\* The orders in which the filesystem may enumerate a path (one, empty, for
\* a path that is no directory: it is never enumerated).
Listings(e) == IF is_dir(e) THEN listdir(e) ELSE {<<>>}

\* open(path).read(): the whole text of a file.
ReadText(c) == c

OpenForWrite(f, p) ==
    [f EXCEPT ![p] = IF is_file(@) THEN FileEntry("") ELSE @]
\* open(path) for reading leaves the filesystem as it is.
OpenForRead(f, p) == f

(***************************************************************************)
(* Values and page elements.                                               *)
(***************************************************************************)
ListOf(items) == [type |-> "list", items |-> items]
EntityNotFoundError(msg) == [type |-> "EntityNotFoundError", message |-> msg]
Str(t) == [type |-> "str", text |-> t]
NoneValue == [type |-> "None"]

Returned(v) == [kind |-> "return", value |-> v]
Raised(e) == [kind |-> "raise", exc |-> e]
NoResult == [kind |-> "none"]

Markdown(body) == [el |-> "markdown", body |-> body]
Html(content, tab) == [el |-> "html", content |-> content, tab |-> tab]
TabsElement(labels) == [el |-> "tabs", labels |-> labels]
Caption(prefix, text) == [el |-> "caption", prefix |-> prefix, text |-> text]
Header(prefix, text) == [el |-> "header", prefix |-> prefix, text |-> text]
Selectbox(label, options) == [el |-> "selectbox", label |-> label, options |-> options]

ReportOpen == Markdown("<div class=\"stReport\">")
ReportClose == Markdown("</div>")

(***************************************************************************)
(* pathlib.Path.                                                           *)
(***************************************************************************)
\* The components of a relative path text: split at "/", empty components
\* dropped ("a/" and "a" are the same path).
RECURSIVE Components(_, _)
Components(t, cur) ==
    IF t = <<>> THEN (IF cur = <<>> THEN <<>> ELSE <<cur>>)
    ELSE IF Head(t) = "/"
         THEN (IF cur = <<>> THEN <<>> ELSE <<cur>>) \o Components(Tail(t), <<>>)
         ELSE Components(Tail(t), Append(cur, Head(t)))

\* Path(text)
PathOf(t) == [type |-> "Path", parts |-> Components(t, <<>>)]

\* report_path / report_part
Join(p, n) == [parent |-> p, name |-> n]

\* s < t for two texts given as character codes
RECURSIVE TextLess(_, _)
TextLess(s, t) ==
    IF t = <<>> THEN FALSE
    ELSE IF s = <<>> THEN TRUE
    ELSE IF Head(s) # Head(t) THEN Head(s) < Head(t)
    ELSE TextLess(Tail(s), Tail(t))

\* a < b for two children of one directory: their names decide
PathLess(a, b) == a.parent = b.parent /\ TextLess(a.name, b.name)

RECURSIVE Insert(_, _)
Insert(x, s) ==
    IF s = <<>> THEN <<x>>
    ELSE IF PathLess(x, Head(s)) THEN <<x>> \o s
    ELSE <<Head(s)>> \o Insert(x, Tail(s))

RECURSIVE InsertionSort(_)
InsertionSort(s) ==
    IF s = <<>> THEN <<>> ELSE Insert(Head(s), InsertionSort(Tail(s)))

\* sorted(list(map(lambda report_part: report_path / report_part, ...)))
sorted(s) == InsertionSort(s)

\* get_report_name of src/utils.py: the display name derived from a path
get_report_name(part) == [report_name_of |-> part.name]

\* period_dir_to_dates_range of src/utils.py: the dates range of a period
period_dir_to_dates_range(period) == <<"dates(">> \o period \o <<")">>

\* the formatted tab name: the chart icon, then the name
TabLabel(name) == [icon |-> "chart", name |-> name]

(***************************************************************************)
(* display_report: the body.  Each branch gives how the call ends, the     *)
(* elements it puts inside the report container and its filesystem         *)
(* accesses.                                                               *)
(***************************************************************************)
FileBranchEmptyResult(e) ==
    LET report == ReadText(e.text)
    IN  [result |-> Returned(ListOf(<<>>)),
         page   |-> <<Html(report, 0)>>,
         reads  |-> 1]
\* report_path.is_file(): read the file, embed it, return [report].
FileBranch(e) ==
    LET report == ReadText(e.text)
    IN  [result |-> Returned(ListOf(<<report>>)),
         page   |-> <<Html(report, 0)>>,
         reads  |-> 1]

\* st.tabs(labels): one tab per label; an empty list of labels is refused
\* (StreamlitAPIException: "The input argument to st.tabs must contain at
\* least one tab label.").
tabs(labels) ==
    IF Len(labels) = 0
    THEN Raised([type |-> "StreamlitAPIException"])
    ELSE Returned([type |-> "tabs", ids |-> [i \in 1..Len(labels) |-> i]])

\* report_path.is_dir(): list, sort, one tab per part, read and embed each
\* part in its tab, return the contents in that order.
DirBranch(p, e, order) ==
    LET report_parts == sorted([i \in 1..Len(order) |-> Join(p, order[i])])
        n == Len(report_parts)
        tab_names_formatted ==
            [i \in 1..n |-> TabLabel(get_report_name(report_parts[i]))]
        made == tabs(tab_names_formatted)
        report_contents ==
            [i \in 1..n |-> ReadText(e.files[report_parts[i].name])]
    IN  IF made.kind = "raise"
        THEN [result |-> made, page |-> <<>>, reads |-> 1]
        ELSE [result |-> Returned(ListOf(report_contents)),
              page   |-> <<TabsElement(tab_names_formatted)>>
                         \o [i \in 1..n |->
                                Html(report_contents[i], made.value.ids[i])],
              reads  |-> 1 + n]

NotFoundBranchRaises ==
    [result |-> Raised(EntityNotFoundError("No reports found")),
     page   |-> <<>>,
     reads  |-> 0]
\* else: the error is built and returned, not raised.
NotFoundBranch ==
    [result |-> Returned(EntityNotFoundError("No reports found")),
     page   |-> <<>>,
     reads  |-> 0]

LeaveOpen(elements) == elements
\* st.markdown('</div>') before the return
CloseContainer(elements) == Append(elements, ReportClose)

\* The whole body on path p holding e, enumerated in the order `order`.
Body(p, e, order) ==
    LET branch ==
            IF is_file(e) THEN [FileBranch(e) EXCEPT !.reads = @ + 1]
            ELSE IF is_dir(e) THEN [DirBranch(p, e, order) EXCEPT !.reads = @ + 2]
            ELSE [NotFoundBranch EXCEPT !.reads = @ + 2]
    IN  IF branch.result.kind = "raise"
        THEN [branch EXCEPT !.page = <<ReportOpen>> \o @]
        ELSE [branch EXCEPT !.page = CloseContainer(<<ReportOpen>> \o @)]

(***************************************************************************)
(* @st.cache_data: the results are kept by argument, with no expiry; a hit *)
(* returns the kept value and replays the kept elements without running    *)
(* the body; a call that raises keeps nothing.                             *)
(***************************************************************************)
NoEntry == [hit |-> FALSE]
NotRun == [ran |-> FALSE]

CacheLookupAnyKey(c, p) ==
    IF \E q \in DOMAIN c : c[q].hit
    THEN c[CHOOSE q \in DOMAIN c : c[q].hit]
    ELSE c[p]
CacheLookup(c, p) == c[p]

CacheStoreListsOnly(c, p, run) ==
    IF run.result.kind = "return" /\ run.result.value.type = "list"
    THEN [c EXCEPT ![p] = [hit |-> TRUE, value |-> run.result.value,
                           elements |-> run.page]]
    ELSE c
CacheStore(c, p, run) ==
    IF run.result.kind = "return"
    THEN [c EXCEPT ![p] = [hit |-> TRUE, value |-> run.result.value,
                           elements |-> run.page]]
    ELSE c

display_report(p) ==
    LET entry == CacheLookup(cache, p)
    IN  /\ call' = [fn |-> "display_report", path |-> p, again |-> p \in invoked]
        /\ invoked' = invoked \cup {p}
        /\ IF entry.hit
           THEN /\ result' = Returned(entry.value)
                /\ page' = entry.elements
                /\ reads' = 0
                /\ UNCHANGED <<fs, cache, firstRun>>
           ELSE \E order \in Listings(fs[p]) :
                    LET run == Body(p, fs[p], order)
                    IN  /\ result' = run.result
                        /\ page' = run.page
                        /\ reads' = run.reads
                        /\ fs' = OpenForRead(fs, p)
                        /\ cache' = CacheStore(cache, p, run)
                        /\ firstRun' =
                              IF run.result.kind = "return" /\ ~firstRun[p].ran
                              THEN [firstRun EXCEPT ![p] =
                                       [ran |-> TRUE, entry |-> fs[p],
                                        value |-> run.result.value]]
                              ELSE firstRun

(***************************************************************************)
(* The selectors.  Each refuses an empty list and otherwise returns what   *)
(* the user picks in the dropdown: the option at index i.                  *)
(***************************************************************************)
selectboxFirst(options, i) == options[1]
\* st.sidebar.selectbox(label, options): the option the user chose
selectbox(options, i) == options[i]

select_project_result(projects, i) ==
    IF projects = <<>>
    THEN Raised(EntityNotFoundError("Projects not found"))
    ELSE Returned(PathOf(selectbox(projects, i)))

select_period_silent(periods, i) ==
    IF periods = <<>>
    THEN Returned(NoneValue)
    ELSE Returned(Str(selectbox(periods, i)))
select_period_result(periods, i) ==
    IF periods = <<>>
    THEN Raised(EntityNotFoundError("No periods found"))
    ELSE Returned(Str(selectbox(periods, i)))

select_report_result(report_names, i) ==
    IF report_names = <<>>
    THEN Raised(EntityNotFoundError("Reports not found"))
    ELSE Returned(Str(selectbox(report_names, i)))

\* The dropdown a selector draws in the sidebar (none when it raised).
SelectorPage(label, options, res) ==
    IF res.kind = "raise" THEN <<>> ELSE <<Selectbox(label, options)>>

\* The choices the dropdown offers: an index of the list (none when the
\* list is empty: the dropdown is never drawn).
Choices(options) == IF options = <<>> THEN {0} ELSE 1..Len(options)

select_project ==
    \E projects \in OptionLists : \E i \in Choices(projects) :
        LET res == select_project_result(projects, i)
        IN  /\ call' = [fn |-> "select_project", options |-> projects, index |-> i]
            /\ result' = res
            /\ page' = SelectorPage("Select project", projects, res)
            /\ reads' = 0
            /\ UNCHANGED <<fs, cache, firstRun, invoked>>

select_period ==
    \E periods \in OptionLists : \E i \in Choices(periods) :
        LET res == select_period_result(periods, i)
        IN  /\ call' = [fn |-> "select_period", options |-> periods, index |-> i]
            /\ result' = res
            /\ page' = SelectorPage("Select period", periods, res)
            /\ reads' = 0
            /\ UNCHANGED <<fs, cache, firstRun, invoked>>

select_report ==
    \E report_names \in OptionLists : \E i \in Choices(report_names) :
        LET res == select_report_result(report_names, i)
        IN  /\ call' = [fn |-> "select_report", options |-> report_names, index |-> i]
            /\ result' = res
            /\ page' = SelectorPage("Select report", report_names, res)
            /\ reads' = 0
            /\ UNCHANGED <<fs, cache, firstRun, invoked>>

(***************************************************************************)
(* The header and the page chrome.                                         *)
(***************************************************************************)
display_header ==
    \E project_name \in OptionTexts, period \in OptionTexts,
       report_name \in OptionTexts :
        LET dates_range == period_dir_to_dates_range(period)
        IN  /\ call' = [fn |-> "display_header", project_name |-> project_name,
                        period |-> period, report_name |-> report_name]
            /\ result' = Returned(NoneValue)
            /\ page' = << Markdown("<div class=\"stHeader\">"),
                          Caption("Project: ", project_name),
                          Header("", report_name),
                          Caption("Period: ", dates_range),
                          Markdown("</div>") >>
            /\ reads' = 0
            /\ UNCHANGED <<fs, cache, firstRun, invoked>>

set_page_container_style ==
    /\ call' = [fn |-> "set_page_container_style"]
    /\ result' = Returned(NoneValue)
    /\ page' = <<Markdown("<style>")>>
    /\ reads' = 0
    /\ UNCHANGED <<fs, cache, firstRun, invoked>>

\* Image.open("static/logo.png") comes first: without the logo file the
\* call raises before it draws anything.  The logo is no report path; whether
\* it is there is the environment's choice.
display_sidebar_header ==
    \E logo \in BOOLEAN :
        /\ call' = [fn |-> "display_sidebar_header"]
        /\ result' = IF logo THEN Returned(NoneValue)
                     ELSE Raised([type |-> "FileNotFoundError"])
        /\ page' = IF logo
                   THEN << Markdown("<div class=\"logo-container\">"),
                           [el |-> "image"],
                           Markdown("</div>"),
                           Markdown("<a>Source code</a>"),
                           Markdown("<a>Evidently docs</a>"),
                           Markdown("<hr>") >>
                   ELSE <<>>
        /\ reads' = 1
        /\ UNCHANGED <<fs, cache, firstRun, invoked>>

(***************************************************************************)
(* The environment: between two calls the collaborators that produce the   *)
(* reports may create, replace or remove what a path holds.                *)
(***************************************************************************)
FilesystemChange ==
    \E p \in Paths : \E e \in Entries \ {fs[p]} :
        /\ fs' = [fs EXCEPT ![p] = e]
        /\ call' = [fn |-> "filesystem_change"]
        /\ result' = NoResult
        /\ page' = <<>>
        /\ reads' = 0
        /\ UNCHANGED <<cache, firstRun, invoked>>

Init ==
    /\ fs \in [Paths -> Entries]
    /\ cache = [p \in Paths |-> NoEntry]
    /\ call = [fn |-> "start"]
    /\ result = NoResult
    /\ page = <<>>
    /\ reads = 0
    /\ firstRun = [p \in Paths |-> NotRun]
    /\ invoked = {}

Next ==
    \/ \E p \in Paths : display_report(p)
    \/ FilesystemChange

Spec == Init /\ [][Next]_vars

\* The operations of the module alone, in any order, on a filesystem that
\* nobody else changes.
NextModule ==
    \/ \E p \in Paths : display_report(p)
    \/ select_project
    \/ select_period
    \/ select_report
    \/ display_header
    \/ set_page_container_style
    \/ display_sidebar_header

SpecModule == Init /\ [][NextModule]_vars

(***************************************************************************)
(* What the properties speak of.                                           *)
(***************************************************************************)
Selectors == {"select_project", "select_period", "select_report"}

\* The last step was a call of display_report.
IsDisplay == call.fn = "display_report"

\* The last step was a call of display_report whose body ran: the body
\* asks is_file first, so it always touches the filesystem; a call answered
\* from the cache never does.
BodyRan == IsDisplay /\ reads > 0

HtmlBlocks(pg) == {i \in DOMAIN pg : pg[i].el = "html"}

\* v is what the body returns on a path that holds e.
ValueMatches(v, e) ==
    \/ /\ is_file(e)
       /\ v.type = "list"
       /\ v.items = <<e.text>>
    \/ /\ is_dir(e)
       /\ v.type = "list"
       /\ \E o \in listdir(e) :
              /\ Len(v.items) = Len(o)
              /\ \A i \in DOMAIN o : v.items[i] = e.files[o[i]]
    \/ /\ e = Absent
       /\ v.type = "EntityNotFoundError"

\* C1: a selector handed an empty list raises EntityNotFoundError with a
\* non-empty message and returns nothing.
C1_EmptyListRaises ==
    (call.fn \in Selectors /\ call.options = <<>>) =>
        /\ result.kind = "raise"
        /\ result.exc.type = "EntityNotFoundError"
        /\ result.exc.message # ""

C1_Witness ==
    /\ call.fn = "select_report"
    /\ call.options = <<>>
    /\ result.kind = "raise"
    /\ result.exc.message = "Reports not found"

\* C2, as stated: a selector handed a non-empty list never raises and
\* returns the element of the list that the user's choice designates.
C2_ReturnsListMember ==
    (call.fn \in Selectors /\ call.options # <<>>) =>
        /\ result.kind = "return"
        /\ result.value = Str(call.options[call.index])

\* C2, amended: a selector handed a non-empty list never raises;
\* select_period and select_report return the element the user's choice
\* designates, select_project returns the Path made from that element.
C2_ReturnsChoice ==
    (call.fn \in Selectors /\ call.options # <<>>) =>
        /\ result.kind = "return"
        /\ result.value = IF call.fn = "select_project"
                          THEN PathOf(call.options[call.index])
                          ELSE Str(call.options[call.index])

\* The user picks "a/", the second of two projects; what comes back is the
\* path a, which is no text and equal to the path of the first option.
C2_Witness ==
    /\ call.fn = "select_project"
    /\ call.options = << <<"a">>, <<"a", "/">> >>
    /\ call.index = 2
    /\ result.kind = "return"
    /\ result.value.parts = << <<"a">> >>

\* One HTML block on the page, holding c.
OneHtmlBlock(c) ==
    /\ Cardinality(HtmlBlocks(page)) = 1
    /\ \A i \in HtmlBlocks(page) : page[i].content = c

\* C3, as stated: for a path that is a single file, display_report returns
\* a one-element list (the file's text as it was when read) and embeds
\* exactly one HTML block with that content.
C3_FileReturnsContent ==
    (IsDisplay /\ is_file(fs[call.path])) =>
        /\ result.kind = "return"
        /\ result.value.type = "list"
        /\ Len(result.value.items) = 1
        /\ reads > 0 => result.value.items[1] = fs[call.path].text
        /\ OneHtmlBlock(result.value.items[1])

\* C3, amended: for a path that is a single file and has no memoized
\* result (the body runs), display_report returns the one-element list of
\* the file's text and embeds exactly one HTML block with that text.
C3_FileReadReturnsContent ==
    (BodyRan /\ is_file(fs[call.path])) =>
        /\ result = Returned(ListOf(<<fs[call.path].text>>))
        /\ OneHtmlBlock(fs[call.path].text)

C3_Witness ==
    /\ BodyRan
    /\ call.path = "p"
    /\ fs["p"] = FileEntry("<h2>")
    /\ result.kind = "return"
    /\ result.value.items = <<"<h2>">>
    /\ Len(page) = 3

\* The names of directory e in ascending order.
Ascending(e, o) ==
    /\ o \in listdir(e)
    /\ \A i, j \in DOMAIN o : i < j => TextLess(o[i], o[j])

\* The last call rendered the directory at its path: N contents in
\* ascending order of the names, N tab labels, and the i-th label, the i-th
\* embedded block (in the i-th tab) and the i-th content are the i-th file's.
DirRendered ==
    LET e == fs[call.path]
        n == Cardinality(DOMAIN e.files)
    IN  /\ result.kind = "return"
        /\ result.value.type = "list"
        /\ Len(result.value.items) = n
        /\ \E o \in listdir(e) :
              /\ Ascending(e, o)
              /\ \A i \in 1..n : result.value.items[i] = e.files[o[i]]
              /\ Cardinality({k \in DOMAIN page : page[k].el = "tabs"}) = 1
              /\ \A k \in DOMAIN page : page[k].el = "tabs" =>
                    /\ Len(page[k].labels) = n
                    /\ \A i \in 1..n :
                          page[k].labels[i] =
                              TabLabel(get_report_name(Join(call.path, o[i])))
              /\ Cardinality(HtmlBlocks(page)) = n
              /\ \A i \in 1..n : \E k \in HtmlBlocks(page) :
                    page[k].tab = i /\ page[k].content = e.files[o[i]]

\* C4, as stated (for the calls whose body runs): a directory of N files,
\* any N, is rendered as N tabs and N contents in ascending name order.
C4_DirectoryRendered ==
    (BodyRan /\ is_dir(fs[call.path])) => DirRendered

\* The same for the directories that hold at least one file.
NonEmptyDirectoryRendered ==
    (BodyRan /\ is_dir(fs[call.path]) /\ DOMAIN fs[call.path].files # {}) =>
        DirRendered

\* C5, as stated: for a path that is neither a file nor a directory,
\* display_report does not raise and returns a not-found error object.
C5_MissingReturnsError ==
    (IsDisplay /\ fs[call.path] = Absent) =>
        /\ result.kind = "return"
        /\ result.value.type = "EntityNotFoundError"

\* C5, amended: for a path that is neither a file nor a directory and has
\* no memoized result (the body runs), display_report does not raise and
\* returns a not-found error object, not a list.
C5_MissingReadReturnsError ==
    (BodyRan /\ fs[call.path] = Absent) =>
        /\ result.kind = "return"
        /\ result.value.type = "EntityNotFoundError"
        /\ result.value.message # ""

C5_Witness ==
    /\ BodyRan
    /\ fs[call.path] = Absent
    /\ result = Returned(EntityNotFoundError("No reports found"))
    /\ reads = 2

\* C6, as stated: an invocation of display_report with a path it was
\* invoked with before reads nothing from the filesystem and returns what
\* the earlier invocation returned.
C6_RepeatedCallReadsNothing ==
    (IsDisplay /\ call.again) =>
        /\ reads = 0
        /\ result.kind = "return"
        /\ result.value = firstRun[call.path].value

\* The same for the paths an earlier invocation returned a result for.
RepeatedCallAfterReturn ==
    [][(call'.fn = "display_report" /\ firstRun[call'.path].ran) =>
          /\ reads' = 0
          /\ result' = Returned(firstRun[call'.path].value)
          /\ fs' = fs]_vars

\* C7: no operation of the module changes the filesystem.
C7_FilesystemUntouched ==
    [][call'.fn # "filesystem_change" => fs' = fs]_vars

\* A directory of two files has been listed and both files read, and it still
\* holds both.
C7_Witness ==
    /\ BodyRan
    /\ reads = 5
    /\ \E c, d \in Contents :
          fs[call.path] = DirEntry([n \in Names |-> IF n = <<50>> THEN c ELSE d])

C9_NotFoundMemoized ==
    (IsDisplay /\ firstRun[call.path].ran /\ firstRun[call.path].entry = Absent) =>
        /\ result.kind = "return"
        /\ result.value.type = "EntityNotFoundError"

C9_Witness ==
    /\ IsDisplay
    /\ firstRun[call.path].ran
    /\ firstRun[call.path].entry = Absent
    /\ fs[call.path] # Absent
    /\ result.kind = "return"
    /\ result.value.type = "EntityNotFoundError"

\* C10: a body of display_report that returns has put the opening marker
\* of the report container first, the closing marker last, each once, and
\* every embedded block and tab between the two.
C10_ContainerClosed ==
    (BodyRan /\ result.kind = "return") =>
        /\ Len(page) >= 2
        /\ page[1] = ReportOpen
        /\ page[Len(page)] = ReportClose
        /\ \A i \in 2..(Len(page) - 1) : page[i].el \in {"html", "tabs"}

C10_Witness ==
    /\ BodyRan
    /\ result.kind = "return"
    /\ is_dir(fs[call.path])
    /\ Len(page) = 5
    /\ page[5] = ReportClose

====
